---------------------------- MODULE Spec2Model ----------------------------
(***************************************************************************)
(* Complex numbers with floating-point parts (src/src/lib.rs).             *)
(*                                                                         *)
(* The crate instantiates one macro for (c32, f32) and (c64, f64).  The    *)
(* model keeps the structure of an IEEE 754 binary format (sign, hidden    *)
(* bit, subnormals, signed zeros, infinities, NaN, round to nearest with   *)
(* ties to even) and takes its widths as parameters: MantBits bits of      *)
(* significand, exponents -MinExpMag .. EMax.  f32 is (24, 126, 127) and   *)
(* f64 is (53, 1022, 1023); the model is checked at smaller widths.        *)
(***************************************************************************)
EXTENDS Integers, Sequences, FiniteSets

\* Width of the significand, hidden bit included.
MantBits == 6
\* Largest exponent of a finite value: the largest finite value is below 2^(EMax+1).
EMax == 7
\* The smallest normal value is 2^(-MinExpMag).
MinExpMag == 6

(***************************************************************************)
(* The scalar type $real.  A finite value is sign * n * 2^(-Frac): n       *)
(* counts units of the smallest subnormal.  NaN is one value: its sign and *)
(* payload are invisible to every operation of the crate but Debug.        *)
(***************************************************************************)
Frac == MinExpMag + MantBits - 1
TopBits == MantBits + EMax + MinExpMag
MaxN == (2^MantBits - 1) * 2^(EMax + MinExpMag)

NaN == [k |-> "nan", s |-> 0, n |-> 0]
Inf(s) == [k |-> "inf", s |-> s, n |-> 0]
Fin(s, n) == [k |-> "fin", s |-> s, n |-> n]
Zero == Fin(0, 0)
NegZero == Fin(1, 0)
PosInf == Inf(0)
NegInf == Inf(1)
MaxFinite == Fin(0, MaxN)
MinSubnormal == Fin(0, 1)

IsNaN(x) == x.k = "nan"
IsInf(x) == x.k = "inf"
IsFinite(x) == x.k = "fin"
IsZero(x) == x.k = "fin" /\ x.n = 0

Xor(s, t) == IF s = t THEN 0 ELSE 1
Abs(i) == IF i < 0 THEN -i ELSE i
\* The signed count of units of a finite value.
SV(x) == IF x.s = 1 THEN -x.n ELSE x.n

RECURSIVE BitLen(_)
BitLen(n) == IF n = 0 THEN 0 ELSE 1 + BitLen(n \div 2)

\* A representable n is m * 2^t with m < 2^MantBits.
Shift(n) == IF BitLen(n) > MantBits THEN BitLen(n) - MantBits ELSE 0
Mant(n) == n \div 2^Shift(n)

(***************************************************************************)
(* Round(s, m, e): the value of the format nearest to sign * m * 2^e units *)
(* (e may be negative), ties to the even significand, overflow to          *)
(* infinity.  q is the exponent of the result's quantum, sh the number of  *)
(* low bits of m that do not fit.                                          *)
(***************************************************************************)
Round(s, m, e) ==
    IF m = 0 THEN Fin(s, 0)
    ELSE LET len == BitLen(m) + e
             q == IF len > MantBits THEN len - MantBits ELSE 0
             sh == q - e
         IN  IF len > TopBits + 1 THEN Inf(s)
             ELSE IF sh <= 0
                  THEN IF len > TopBits THEN Inf(s) ELSE Fin(s, m * 2^e)
             ELSE IF sh > BitLen(m) + 1 THEN Fin(s, 0)
             ELSE LET keep == m \div 2^sh
                      rem == m % 2^sh
                      half == 2^(sh - 1)
                      up == rem > half \/ (rem = half /\ keep % 2 = 1)
                      n == (IF up THEN keep + 1 ELSE keep) * 2^q
                  IN  IF n > MaxN THEN Inf(s) ELSE Fin(s, n)

\* -x: flips the sign bit.
FNeg(x) == IF IsNaN(x) THEN NaN ELSE [x EXCEPT !.s = 1 - x.s]

\* x + y.
FAdd(x, y) ==
    IF IsNaN(x) \/ IsNaN(y) THEN NaN
    ELSE IF IsInf(x) /\ IsInf(y) THEN (IF x.s = y.s THEN x ELSE NaN)
    ELSE IF IsInf(x) THEN x
    ELSE IF IsInf(y) THEN y
    ELSE LET v == SV(x) + SV(y)
         IN  IF v = 0 THEN Fin(IF x.s = 1 /\ y.s = 1 THEN 1 ELSE 0, 0)
             ELSE Round(IF v < 0 THEN 1 ELSE 0, Abs(v), 0)

\* x - y.
FSub(x, y) == FAdd(x, FNeg(y))

\* x * y.
FMul(x, y) ==
    IF IsNaN(x) \/ IsNaN(y) THEN NaN
    ELSE IF IsInf(x) \/ IsInf(y)
         THEN (IF IsZero(x) \/ IsZero(y) THEN NaN ELSE Inf(Xor(x.s, y.s)))
    ELSE IF x.n = 0 \/ y.n = 0 THEN Fin(Xor(x.s, y.s), 0)
    ELSE Round(Xor(x.s, y.s), Mant(x.n) * Mant(y.n), Shift(x.n) + Shift(y.n) - Frac)

\* x / y.  The quotient of the significands is taken to 2 * MantBits + 2
\* fractional bits, with one more bit that says whether a remainder is left.
FDiv(x, y) ==
    IF IsNaN(x) \/ IsNaN(y) THEN NaN
    ELSE IF IsInf(x) THEN (IF IsInf(y) THEN NaN ELSE Inf(Xor(x.s, y.s)))
    ELSE IF IsInf(y) THEN Fin(Xor(x.s, y.s), 0)
    ELSE IF y.n = 0 THEN (IF x.n = 0 THEN NaN ELSE Inf(Xor(x.s, y.s)))
    ELSE IF x.n = 0 THEN Fin(Xor(x.s, y.s), 0)
    ELSE LET kk == 2 * MantBits + 2
             num == Mant(x.n) * 2^kk
             quo == num \div Mant(y.n)
             sticky == IF num % Mant(y.n) = 0 THEN 0 ELSE 1
         IN  Round(Xor(x.s, y.s), 2 * quo + sticky,
                   Shift(x.n) - Shift(y.n) + Frac - kk - 1)

\* x == y of the scalar type: NaN equals nothing, -0 equals +0.
FEq(x, y) == ~IsNaN(x) /\ ~IsNaN(y) /\ (x = y \/ (IsZero(x) /\ IsZero(y)))

\* A literal with an integer value, such as 3.0 or -23.0.
Lit(i) == Round(IF i < 0 THEN 1 ELSE 0, Abs(i), Frac)

(***************************************************************************)
(* The complex type $complex(re, im): a pair of scalars.                   *)
(***************************************************************************)
new(x, y) == <<x, y>>
re(z) == z[1]
im(z) == z[2]
\* Slip: the real part is negated instead of the imaginary part.
conj_bug(z) == new(FNeg(re(z)), im(z))
conj(z) == new(re(z), FNeg(im(z)))

\* #[derive(PartialEq)]: both parts equal under the scalar's ==.
CEq(a, b) == FEq(re(a), re(b)) /\ FEq(im(a), im(b))

\* let denominator = rhs.re() * rhs.re() + rhs.im() * rhs.im();
Denominator(rhs) == FAdd(FMul(re(rhs), re(rhs)), FMul(im(rhs), im(rhs)))

AddCC(self, rhs) == new(FAdd(re(self), re(rhs)), FAdd(im(self), im(rhs)))
AddCR(self, rhs) == new(FAdd(re(self), rhs), im(self))
AddRC(self, rhs) == new(FAdd(self, re(rhs)), im(rhs))

\* Slip: the imaginary numerator adds where it should subtract.
DivCC_bug(self, rhs) ==
    LET denominator == Denominator(rhs)
    IN  new(FDiv(FAdd(FMul(re(self), re(rhs)), FMul(im(self), im(rhs))), denominator),
            FDiv(FAdd(FMul(im(self), re(rhs)), FMul(re(self), im(rhs))), denominator))
DivCC(self, rhs) ==
    LET denominator == Denominator(rhs)
    IN  new(FDiv(FAdd(FMul(re(self), re(rhs)), FMul(im(self), im(rhs))), denominator),
            FDiv(FSub(FMul(im(self), re(rhs)), FMul(re(self), im(rhs))), denominator))
\* Slip: a guard that returns the dividend when the divisor is zero.
DivCR_bug(self, rhs) ==
    IF FEq(rhs, Zero) THEN self ELSE new(FDiv(re(self), rhs), FDiv(im(self), rhs))
DivCR(self, rhs) == new(FDiv(re(self), rhs), FDiv(im(self), rhs))
\* Slip: the scalar is not negated in the imaginary part.
DivRC_bug(self, rhs) ==
    LET denominator == Denominator(rhs)
    IN  new(FDiv(FMul(self, re(rhs)), denominator),
            FDiv(FMul(self, im(rhs)), denominator))
\* Slip: the operands taken in the order of Div<$real> for $complex.
DivRC_swapped(self, rhs) == new(FDiv(re(rhs), self), FDiv(im(rhs), self))
DivRC(self, rhs) ==
    LET denominator == Denominator(rhs)
    IN  new(FDiv(FMul(self, re(rhs)), denominator),
            FDiv(FMul(FNeg(self), im(rhs)), denominator))

\* Slip: the real part adds the product of the imaginary parts.
MulCC_bug(self, rhs) ==
    new(FAdd(FMul(re(self), re(rhs)), FMul(im(self), im(rhs))),
        FAdd(FMul(im(self), re(rhs)), FMul(re(self), im(rhs))))
MulCC(self, rhs) ==
    new(FSub(FMul(re(self), re(rhs)), FMul(im(self), im(rhs))),
        FAdd(FMul(im(self), re(rhs)), FMul(re(self), im(rhs))))
MulCR(self, rhs) == new(FMul(re(self), rhs), FMul(im(self), rhs))
\* Slip: only the real part is scaled.
MulRC_bug(self, rhs) == new(FMul(self, re(rhs)), im(rhs))
MulRC(self, rhs) == new(FMul(self, re(rhs)), FMul(self, im(rhs)))

\* Slip: the imaginary part keeps its sign.
NegC_bug(self) == new(FNeg(re(self)), im(self))
NegC(self) == new(FNeg(re(self)), FNeg(im(self)))

SubCC(self, rhs) == new(FSub(re(self), re(rhs)), FSub(im(self), im(rhs)))
SubCR(self, rhs) == new(FSub(re(self), rhs), im(self))
\* Slip: written as the mirror of complex minus real.
SubRC_bug(self, rhs) == new(FSub(self, re(rhs)), im(rhs))
SubRC(self, rhs) == new(FSub(self, re(rhs)), FNeg(im(rhs)))

(***************************************************************************)
(* A caller holds one complex value, `number`, and evaluates one call at a *)
(* time on it.  op names the call, arg holds its other operand (<<r>> for  *)
(* a scalar, <<re, im>> for a complex value) and out its result; Drop ends *)
(* the statement and lets the temporaries go.                              *)
(***************************************************************************)
RealInputs ==
    {NaN, PosInf, Zero, NegZero, MaxFinite, MinSubnormal,
     Lit(-1), Lit(1), Lit(2), Lit(3), Lit(4), Lit(7), Lit(9), Lit(12)}
ComplexInputs ==
    {new(Lit(3), Lit(-1)), new(Lit(2), Lit(7)), new(Lit(4), Lit(1)),
     new(Lit(2), Lit(3)), new(Lit(4), Lit(12)), new(Zero, Zero),
     new(NegZero, Zero), new(MinSubnormal, MinSubnormal),
     new(MaxFinite, Lit(1)), new(MaxFinite, MaxFinite), new(Lit(-1), Zero),
     new(NaN, Lit(1)), new(Lit(2), NegInf), new(PosInf, PosInf)}

VARIABLES number, op, arg, out
vars == <<number, op, arg, out>>

Init ==
    /\ number \in ComplexInputs
    /\ op = "none"
    /\ arg = <<>>
    /\ out = <<>>

\* A call that leaves its operands alone (they are Copy and passed by value
\* or by shared reference) and returns result.
Call(name, operand, result) ==
    /\ op = "none"
    /\ op' = name
    /\ arg' = operand
    /\ out' = result
    /\ UNCHANGED number

New(x, y) ==
    /\ op = "none"
    /\ number' = new(x, y)
    /\ op' = "new"
    /\ arg' = <<x, y>>
    /\ out' = <<>>

\* Slip: re_mut hands out the second field.
ReMut_bug(v) ==
    /\ op = "none"
    /\ number' = [number EXCEPT ![2] = v]
    /\ op' = "re_mut"
    /\ arg' = <<v>>
    /\ out' = <<>>

\* *number.re_mut() = v;
ReMut(v) ==
    /\ op = "none"
    /\ number' = [number EXCEPT ![1] = v]
    /\ op' = "re_mut"
    /\ arg' = <<v>>
    /\ out' = <<>>

\* *number.im_mut() = v;
ImMut(v) ==
    /\ op = "none"
    /\ number' = [number EXCEPT ![2] = v]
    /\ op' = "im_mut"
    /\ arg' = <<v>>
    /\ out' = <<>>

Conj == Call("conj", <<>>, conj(number))
Neg == Call("neg", <<>>, NegC(number))
Add(rhs) == Call("add_cc", rhs, AddCC(number, rhs))
AddReal(r) == Call("add_cr", <<r>>, AddCR(number, r))
RealAdd(r) == Call("add_rc", <<r>>, AddRC(r, number))
Div(rhs) == Call("div_cc", rhs, DivCC(number, rhs))
DivReal(r) == Call("div_cr", <<r>>, DivCR(number, r))
RealDiv(r) == Call("div_rc", <<r>>, DivRC(r, number))
Mul(rhs) == Call("mul_cc", rhs, MulCC(number, rhs))
MulReal(r) == Call("mul_cr", <<r>>, MulCR(number, r))
RealMul(r) == Call("mul_rc", <<r>>, MulRC(r, number))
Sub(rhs) == Call("sub_cc", rhs, SubCC(number, rhs))
SubReal(r) == Call("sub_cr", <<r>>, SubCR(number, r))
RealSub(r) == Call("sub_rc", <<r>>, SubRC(r, number))

Drop ==
    /\ op # "none"
    /\ op' = "none"
    /\ arg' = <<>>
    /\ out' = <<>>
    /\ UNCHANGED number

Next ==
    \/ \E z \in ComplexInputs : New(re(z), im(z))
    \/ \E v \in RealInputs : ReMut(v)
    \/ \E v \in RealInputs : ImMut(v)
    \/ Conj
    \/ Neg
    \/ \E rhs \in ComplexInputs : Add(rhs)
    \/ \E r \in RealInputs : AddReal(r)
    \/ \E r \in RealInputs : RealAdd(r)
    \/ \E rhs \in ComplexInputs : Div(rhs)
    \/ \E r \in RealInputs : DivReal(r)
    \/ \E r \in RealInputs : RealDiv(r)
    \/ \E rhs \in ComplexInputs : Mul(rhs)
    \/ \E r \in RealInputs : MulReal(r)
    \/ \E r \in RealInputs : RealMul(r)
    \/ \E rhs \in ComplexInputs : Sub(rhs)
    \/ \E r \in RealInputs : SubReal(r)
    \/ \E r \in RealInputs : RealSub(r)
    \/ Drop

Spec == Init /\ [][Next]_vars

(***************************************************************************)
(* The generic expression (a + b) * (a - b) / c of two scalars and a       *)
(* complex value: scalar arithmetic, then Div<$complex> for $real with     *)
(* c = number.                                                             *)
(***************************************************************************)
DiffOfSquares(a, b) ==
    Call("diff_sq", <<a, b>>, DivRC(FMul(FAdd(a, b), FSub(a, b)), number))

NextExpr ==
    \/ \E z \in ComplexInputs : New(re(z), im(z))
    \/ \E v \in RealInputs : ReMut(v)
    \/ \E v \in RealInputs : ImMut(v)
    \/ \E a \in RealInputs, b \in RealInputs : DiffOfSquares(a, b)
    \/ Drop

SpecExpr == Init /\ [][NextExpr]_vars

(***************************************************************************)
(* Helpers of the properties.                                              *)
(***************************************************************************)
InfOrNaN(x) == IsInf(x) \/ IsNaN(x)
NoNaN(z) == ~IsNaN(re(z)) /\ ~IsNaN(im(z))
FiniteC(z) == IsFinite(re(z)) /\ IsFinite(im(z))
Embed(r) == new(r, Zero)

\* Every n a finite value of the format can have.
Representable ==
    {m * 2^t : m \in 0..(2^MantBits - 1), t \in 0..(EMax + MinExpMag)}

\* x is a finite value of the format nearest to the rational num / den
\* (den > 0), decided in integers: what a decimal literal such as 0.6
\* denotes, and what the division of two exact values returns.
Nearest(x, num, den) ==
    /\ IsFinite(x)
    /\ \A n \in Representable :
          /\ Abs(SV(x) * den - num * 2^Frac) <= Abs(n * den - num * 2^Frac)
          /\ Abs(SV(x) * den - num * 2^Frac) <= Abs((-n) * den - num * 2^Frac)

\* x + y, x - y, x * y is finite and equal to the exact sum, difference, product.
ExactAdd(x, y) ==
    /\ IsFinite(x) /\ IsFinite(y)
    /\ IsFinite(FAdd(x, y))
    /\ SV(FAdd(x, y)) = SV(x) + SV(y)
ExactSub(x, y) == ExactAdd(x, FNeg(y))
ExactMul(x, y) ==
    /\ IsFinite(x) /\ IsFinite(y)
    /\ IsFinite(FMul(x, y))
    /\ LET p == Mant(x.n) * Mant(y.n)
           e1 == Shift(x.n) + Shift(y.n)
           r == FMul(x, y).n
           e2 == Shift(r) + Frac
       IN  IF e1 >= e2 THEN p * 2^(e1 - e2) = Mant(r)
           ELSE p % 2^(e2 - e1) = 0 /\ p \div 2^(e2 - e1) = Mant(r)

(***************************************************************************)
(* C1.  Complex / complex: whenever the denominator d = re2*re2 + im2*im2  *)
(* is nonzero, a / b has the real part (re1*re2 + im1*im2)/d and the       *)
(* imaginary part (im1*re2 - re1*im2)/d in the scalar's arithmetic; and    *)
(* (3-1i) / (2+7i) is (-1/53, -23/53): equal to the quotients -1.0/53.0    *)
(* and -23.0/53.0, which are the values nearest to -1/53 and -23/53.       *)
(***************************************************************************)
C1_DivComplex ==
    op = "div_cc" /\ ~FEq(Denominator(arg), Zero) =>
        LET d == FAdd(FMul(arg[1], arg[1]), FMul(arg[2], arg[2]))
        IN  /\ out[1] = FDiv(FAdd(FMul(number[1], arg[1]), FMul(number[2], arg[2])), d)
            /\ out[2] = FDiv(FSub(FMul(number[2], arg[1]), FMul(number[1], arg[2])), d)
            /\ (number = <<Lit(3), Lit(-1)>> /\ arg = <<Lit(2), Lit(7)>> =>
                   /\ CEq(out, <<FDiv(Lit(-1), Lit(53)), FDiv(Lit(-23), Lit(53))>>)
                   /\ Nearest(out[1], -1, 53)
                   /\ Nearest(out[2], -23, 53))
C1_Witness ==
    /\ op = "div_cc" /\ number = <<Lit(3), Lit(-1)>> /\ arg = <<Lit(2), Lit(7)>>
    /\ ~FEq(Denominator(arg), Zero)
    /\ IsFinite(out[1]) /\ out[1].s = 1 /\ out[1].n # 0
    /\ IsFinite(out[2]) /\ out[2].s = 1 /\ out[2].n # 0

(***************************************************************************)
(* C2.  Complex * complex: a * b = (re1*re2 - im1*im2, im1*re2 + re1*im2)  *)
(* in the scalar's arithmetic, and (4+1i) * (2+3i) = (5+14i).              *)
(***************************************************************************)
C2_MulComplex ==
    op = "mul_cc" =>
        /\ out[1] = FSub(FMul(number[1], arg[1]), FMul(number[2], arg[2]))
        /\ out[2] = FAdd(FMul(number[2], arg[1]), FMul(number[1], arg[2]))
        /\ (number = <<Lit(4), Lit(1)>> /\ arg = <<Lit(2), Lit(3)>> =>
               out = <<Lit(5), Lit(14)>>)
C2_Witness ==
    op = "mul_cc" /\ number = <<Lit(4), Lit(1)>> /\ arg = <<Lit(2), Lit(3)>>
        /\ CEq(out, <<Lit(5), Lit(14)>>)

(***************************************************************************)
(* C3.  Real minus complex is (r - re, -im), the imaginary part changing   *)
(* sign, whereas complex minus real is (re - r, im); 3 - (4+12i) is        *)
(* (-1-12i) and (4+12i) - 3 is (1+12i).                                    *)
(***************************************************************************)
C3_SubMixed ==
    /\ op = "sub_rc" =>
          /\ out = <<FSub(arg[1], number[1]), FNeg(number[2])>>
          /\ (arg = <<Lit(3)>> /\ number = <<Lit(4), Lit(12)>> =>
                 out = <<Lit(-1), Lit(-12)>>)
    /\ op = "sub_cr" =>
          /\ out = <<FSub(number[1], arg[1]), number[2]>>
          /\ (arg = <<Lit(3)>> /\ number = <<Lit(4), Lit(12)>> =>
                 out = <<Lit(1), Lit(12)>>)
C3_Witness ==
    op = "sub_rc" /\ arg = <<Lit(3)>> /\ number = <<Lit(4), Lit(12)>>
        /\ CEq(out, <<Lit(-1), Lit(-12)>>)

(***************************************************************************)
(* C4.  Real / complex: whenever d = re*re + im*im is nonzero, r / c has   *)
(* the real part (r*re)/d and the imaginary part (-r*im)/d in the scalar's *)
(* arithmetic, and 2 / (3-1i) is (0.6+0.2i): the values of the format      *)
(* nearest to 6/10 and 2/10, which is what the literals 0.6 and 0.2 are.   *)
(***************************************************************************)
C4_DivRealByComplex ==
    op = "div_rc" /\ ~FEq(Denominator(number), Zero) =>
        LET d == FAdd(FMul(number[1], number[1]), FMul(number[2], number[2]))
        IN  /\ out[1] = FDiv(FMul(arg[1], number[1]), d)
            /\ out[2] = FDiv(FMul(FNeg(arg[1]), number[2]), d)
            /\ (arg = <<Lit(2)>> /\ number = <<Lit(3), Lit(-1)>> =>
                   /\ Nearest(out[1], 6, 10)
                   /\ Nearest(out[2], 2, 10)
                   /\ out[1].s = 0 /\ out[2].s = 0)
C4_Witness ==
    /\ op = "div_rc" /\ arg = <<Lit(2)>> /\ number = <<Lit(3), Lit(-1)>>
    /\ ~FEq(Denominator(number), Zero)
    /\ CEq(out, <<FDiv(Lit(6), Lit(10)), FDiv(Lit(2), Lit(10))>>)

(***************************************************************************)
(* C5.  Difference of squares, as amended: for scalars a, b for which      *)
(* a+b, a-b, (a+b)*(a-b), a*a, b*b and a*a - b*b are all computed exactly  *)
(* (finite, no rounding), and a complex c with finite parts whose          *)
(* denominator re*re + im*im is finite and nonzero, (a+b)*(a-b)/c equals   *)
(* (a*a - b*b)/c under the type's ==.                                      *)
(***************************************************************************)
DiffOfSquaresExact(a, b) ==
    /\ ExactAdd(a, b) /\ ExactSub(a, b) /\ ExactMul(FAdd(a, b), FSub(a, b))
    /\ ExactMul(a, a) /\ ExactMul(b, b) /\ ExactSub(FMul(a, a), FMul(b, b))
C5_DiffOfSquaresExact ==
    /\ op = "diff_sq"
    /\ DiffOfSquaresExact(arg[1], arg[2])
    /\ FiniteC(number)
    /\ IsFinite(Denominator(number)) /\ ~IsZero(Denominator(number))
    => CEq(out, DivRC(FSub(FMul(arg[1], arg[1]), FMul(arg[2], arg[2])), number))
C5_Witness ==
    /\ op = "diff_sq" /\ arg = <<Lit(7), Lit(3)>> /\ number = <<Lit(2), Lit(7)>>
    /\ DiffOfSquaresExact(arg[1], arg[2])
    /\ IsFinite(Denominator(number)) /\ ~IsZero(Denominator(number))
    /\ CEq(out, DivRC(Lit(40), number))
\* C5 as stated: for all scalars a, b and every c with a nonzero denominator.
C5_Original ==
    op = "diff_sq" /\ ~FEq(Denominator(number), Zero) =>
        CEq(out, DivRC(FSub(FMul(arg[1], arg[1]), FMul(arg[2], arg[2])), number))
\* The same, with every input finite: rounding and overflow alone break it.
C5_OriginalFinite ==
    op = "diff_sq" /\ ~FEq(Denominator(number), Zero)
        /\ IsFinite(arg[1]) /\ IsFinite(arg[2]) /\ FiniteC(number) =>
        CEq(out, DivRC(FSub(FMul(arg[1], arg[1]), FMul(arg[2], arg[2])), number))

(***************************************************************************)
(* C6.  Negation, as amended: -x is (-re, -im), and for every x with no    *)
(* NaN part -x == x * (-1) and -x == (-1) * x.                             *)
(***************************************************************************)
C6_NegIsMulMinusOne ==
    op = "neg" =>
        /\ out = <<FNeg(number[1]), FNeg(number[2])>>
        /\ (NoNaN(number) =>
               /\ CEq(out, MulCR(number, Lit(-1)))
               /\ CEq(out, MulRC(Lit(-1), number)))
C6_Witness ==
    op = "neg" /\ number = <<Lit(4), Lit(12)>> /\ CEq(out, <<Lit(-4), Lit(-12)>>)
\* C6 as stated: for every complex x.
C6_Original ==
    op = "neg" =>
        /\ CEq(out, MulCR(number, Lit(-1)))
        /\ CEq(out, MulRC(Lit(-1), number))

(***************************************************************************)
(* C7.  Conjugate, as amended: conj(x) is (re, -im) and leaves x as it     *)
(* was, and conj(conj(x)) == x for every x with no NaN part.               *)
(***************************************************************************)
C7_ConjState ==
    op = "conj" =>
        /\ out = <<number[1], FNeg(number[2])>>
        /\ (NoNaN(number) => CEq(conj(out), number))
C7_Conj ==
    /\ []C7_ConjState
    /\ [][op' = "conj" => number' = number]_vars
C7_Witness ==
    op = "conj" /\ number = <<Lit(4), Lit(12)>> /\ out = <<Lit(4), Lit(-12)>>
\* C7 as stated: conj(conj(x)) == x for every x.
C7_Original == op = "conj" => CEq(conj(out), number)

(***************************************************************************)
(* C8.  A write of v through re_mut() makes re() return v and leaves im()  *)
(* as it was, a write through im_mut() makes im() return v and leaves re() *)
(* as it was, and no step but a construction or a write through re_mut()   *)
(* (im_mut()) changes re() (im()): each part is the last value written to  *)
(* it, or the constructed one.                                             *)
(***************************************************************************)
C8_WriteOneComponent ==
    [][/\ op' = "re_mut" => re(number') = arg'[1] /\ im(number') = im(number)
       /\ op' = "im_mut" => im(number') = arg'[1] /\ re(number') = re(number)
       /\ op' \notin {"new", "re_mut"} => re(number') = re(number)
       /\ op' \notin {"new", "im_mut"} => im(number') = im(number)]_vars
C8_Witness ==
    op = "im_mut" /\ arg = <<Lit(7)>> /\ number = <<Lit(9), Lit(7)>>

(***************************************************************************)
(* C9.  Division by a complex value whose denominator re*re + im*im is     *)
(* zero, or of a complex value by the scalar 0, returns a complex value    *)
(* whose parts are each infinite or NaN, and leaves the operands as they   *)
(* were; every division returns a value.                                   *)
(***************************************************************************)
DivOps == {"div_cc", "div_cr", "div_rc"}
IsScalar(x) ==
    /\ x.k \in {"nan", "inf", "fin"} /\ x.s \in {0, 1}
    /\ IF x.k = "fin" THEN x.n \in 0..MaxN ELSE x.n = 0
C9_DivState ==
    op \in DivOps =>
        /\ Len(out) = 2 /\ IsScalar(out[1]) /\ IsScalar(out[2])
        /\ (\/ op = "div_cc" /\ FEq(Denominator(arg), Zero)
            \/ op = "div_rc" /\ FEq(Denominator(number), Zero)
            \/ op = "div_cr" /\ FEq(arg[1], Zero))
           => InfOrNaN(out[1]) /\ InfOrNaN(out[2])
C9_DivByZero ==
    /\ []C9_DivState
    /\ [][op' \in DivOps => number' = number]_vars
C9_Witness ==
    /\ op = "div_cc" /\ arg = <<MinSubnormal, MinSubnormal>>
    /\ number = <<Lit(3), Lit(-1)>> /\ FEq(Denominator(arg), Zero)
    /\ out = <<PosInf, NegInf>>

(***************************************************************************)
(* C10.  Mixed operators against the embedding (r, 0), as amended: for a   *)
(* finite scalar r and a complex c with finite parts, c op r == c op (r,0) *)
(* and r op c == (r,0) op c for op in {+, -, *}, r + c == c + r and        *)
(* r * c == c * r; r / c == (r,0) / c when the denominator of c is nonzero *)
(* and the quotient has no NaN part; c / r == c / (r,0) when r is nonzero  *)
(* and the products re*r, im*r and r*r are computed exactly.               *)
(***************************************************************************)
C10_MixedAgreesWithEmbedding ==
    op \in {"add_cr", "add_rc", "sub_cr", "sub_rc", "mul_cr", "mul_rc",
            "div_cr", "div_rc"}
        /\ IsFinite(arg[1]) /\ FiniteC(number) =>
        LET r == arg[1]
            c == number
        IN  /\ op = "add_cr" => CEq(out, AddCC(c, Embed(r))) /\ CEq(out, AddRC(r, c))
            /\ op = "add_rc" => CEq(out, AddCC(Embed(r), c)) /\ CEq(out, AddCR(c, r))
            /\ op = "sub_cr" => CEq(out, SubCC(c, Embed(r)))
            /\ op = "sub_rc" => CEq(out, SubCC(Embed(r), c))
            /\ op = "mul_cr" => CEq(out, MulCC(c, Embed(r))) /\ CEq(out, MulRC(r, c))
            /\ op = "mul_rc" => CEq(out, MulCC(Embed(r), c)) /\ CEq(out, MulCR(c, r))
            /\ op = "div_rc" /\ ~FEq(Denominator(c), Zero) /\ NoNaN(out) =>
                   CEq(out, DivCC(Embed(r), c))
            /\ op = "div_cr" /\ ~IsZero(r) /\ ExactMul(re(c), r)
                   /\ ExactMul(im(c), r) /\ ExactMul(r, r) =>
                   CEq(out, DivCC(c, Embed(r)))
C10_Witness ==
    /\ op = "div_cr" /\ arg = <<Lit(3)>> /\ number = <<Lit(7), Lit(-1)>>
    /\ ExactMul(re(number), arg[1]) /\ ExactMul(im(number), arg[1])
    /\ ExactMul(arg[1], arg[1])
    /\ CEq(out, DivCC(number, Embed(arg[1])))
    /\ ~IsZero(out[1]) /\ ~IsZero(out[2])
\* The operator of the state applied to the embedded scalar.
EmbeddedResult ==
    CASE op = "add_cr" -> AddCC(number, Embed(arg[1]))
      [] op = "add_rc" -> AddCC(Embed(arg[1]), number)
      [] op = "sub_cr" -> SubCC(number, Embed(arg[1]))
      [] op = "sub_rc" -> SubCC(Embed(arg[1]), number)
      [] op = "mul_cr" -> MulCC(number, Embed(arg[1]))
      [] op = "mul_rc" -> MulCC(Embed(arg[1]), number)
      [] op = "div_cr" -> DivCC(number, Embed(arg[1]))
      [] op = "div_rc" -> DivCC(Embed(arg[1]), number)
EmbeddedDenominator ==
    IF op = "div_cr" THEN Denominator(Embed(arg[1])) ELSE Denominator(number)
\* C10 as stated: for every r, every c and each operator, with a nonzero
\* denominator for /.
C10_Original ==
    op \in {"add_cr", "add_rc", "sub_cr", "sub_rc", "mul_cr", "mul_rc",
            "div_cr", "div_rc"}
        /\ (op \in {"div_cr", "div_rc"} => ~FEq(EmbeddedDenominator, Zero))
        => CEq(out, EmbeddedResult)
\* The same, with every input finite: c / r and c / (r, 0) round differently.
C10_OriginalFinite ==
    op \in {"add_cr", "add_rc", "sub_cr", "sub_rc", "mul_cr", "mul_rc",
            "div_cr", "div_rc"}
        /\ IsFinite(arg[1]) /\ FiniteC(number) /\ NoNaN(out)
        /\ (op \in {"div_cr", "div_rc"} => ~FEq(EmbeddedDenominator, Zero))
        => CEq(out, EmbeddedResult)
=============================================================================
